---- MODULE Spec2Model ----
(***************************************************************************)
(* Model of the Zornade parcel downloader (QGIS processing plugin).        *)
(*                                                                         *)
(* ParcelDownloaderAlgorithm (src/ParcelDownloader.py) and the credential  *)
(* store RapidAPIAuthenticator (src/rapidapi_auth.py) are modelled in two  *)
(* specifications over the same variables:                                 *)
(*                                                                         *)
(*   Spec        the plugin as it runs: the credential store, the          *)
(*               parameter check, processAlgorithm from its first line,    *)
(*               the region query and what the code does with its          *)
(*               response;                                                 *)
(*   DetailSpec  the detail-fetch stage of processAlgorithm (lines         *)
(*               465-812) entered with a non-empty identifier list: the    *)
(*               batch loop, the thread pool of each batch, the            *)
(*               processing of the results.                                *)
(*                                                                         *)
(* Identifiers are the positions 1..total_found of parcel_fids.  The       *)
(* futures of one batch are interchangeable for the coordinator, so the    *)
(* executor is recorded by how many of its futures are pending, running    *)
(* and finished; tasks leave the executor's queue in submission order, so  *)
(* the started tasks are a prefix of the batch.                            *)
(*                                                                         *)
(* Strings the code computes with (credentials, stored settings) are       *)
(* sequences of character codes; texts are ASCII.                          *)
(***************************************************************************)
EXTENDS Integers, Sequences, FiniteSets, TLC

VARIABLES
    settings,        \* QSettings under SETTINGS_GROUP: stored key -> value
    pc,              \* position of the coordinating thread
    response,        \* the response the region query got
    canceled,        \* feedback.isCanceled(), set by the user, never reset
    cancel_seen,     \* where the coordinator has seen isCanceled() true
    total_found,     \* len(parcel_fids)
    next_start,      \* next value of range(0, total_parcels, batch_size)
    batch_start,     \* loop variable of the batch loop
    batch_end,       \* min(batch_start + batch_size, total_parcels)
    batches,         \* the batches started, as <<batch_start, batch_end>>
    submitted,       \* futures of the current batch submitted so far
    pending,         \* submitted futures still queued in the executor
    running,         \* futures whose request is in flight
    finished,        \* finished futures not yet yielded by as_completed
    requests,        \* detail requests sent, per identifier
    batch_results,   \* results collected from the current batch
    processed_count, \* features added
    error_count,     \* failures counted
    features,        \* features in the sink
    progress,        \* values passed to feedback.setProgress, in order
    fatal_reports,   \* feedback.reportError(..., fatalError=True) calls
    report,          \* the message of the last fatal report
    error,           \* the exception that left the algorithm, if any
    result,          \* what processAlgorithm returned
    rate_limited,    \* a detail request answered 429 has been collected
    worker_log,      \* feedback.pushInfo calls made by worker threads
    summary,         \* the lines of the final summary, in order
    catalog,         \* which records the detail endpoint serves in this run
    qgis_geom,       \* the local variable qgis_geom of processAlgorithm
    sink,            \* the features added: the record and its geometry
    last_call,       \* the last call of save_credentials or clear_credentials
    dialog           \* the credentials dialog: its fields, buttons, result

cancelVars == <<canceled, cancel_seen>>
queryVars == <<response, total_found>>
loopVars == <<next_start, batch_start, batch_end, batches>>
poolVars == <<submitted, pending, running, finished, requests>>
countVars == <<batch_results, processed_count, error_count, features, progress>>
outVars == <<fatal_reports, report, error, result>>
noteVars == <<rate_limited, worker_log, summary>>
geomVars == <<catalog, qgis_geom, sink>>
dialogVars == <<last_call, dialog>>

vars == <<settings, pc, cancelVars, queryVars, loopVars, poolVars, countVars,
          outVars, noteVars, geomVars, dialogVars>>

----------------------------------------------------------------------------
(* Bounds of the model *)

\* Job sizes 1..MaxParcels are explored, and one job above SmallJobLimit.
MaxParcels == 12

\* Credential texts have at most MaxTextLen characters.
MaxTextLen == 2

\* Jobs of up to MaxRichJob identifiers are explored with every record of
\* Records.
MaxRichJob == 2

\* String geoms are explored up to MaxTextExtra characters beyond the length
\* of line 713.
MaxTextExtra == 2

----------------------------------------------------------------------------
(* Policy constants of processAlgorithm *)

SmallJobLimit == 50
SmallBatch == 10
MediumJobLimit == 200
MediumBatch == 20
LargeBatch == 25
WorkerCap == 15
ErrorCap == 50
ErrorDivisor == 10

Min(a, b) == IF a <= b THEN a ELSE b

\* batch_size, lines 474-479
BatchSizeFor(n) ==
    IF n <= SmallJobLimit THEN SmallBatch
    ELSE IF n <= MediumJobLimit THEN MediumBatch
    ELSE LargeBatch

\* max_errors = min(50, len(parcel_fids) // 10), line 471
MaxErrorsFor(n) == Min(ErrorCap, n \div ErrorDivisor)

\* A pool as wide as the batch.
MaxWorkersUncapped(b) == b

\* max_workers = min(batch_size, 15), line 566
MaxWorkers(b) == Min(b, WorkerCap)

total_parcels == total_found
batch_size == BatchSizeFor(total_found)
max_errors == MaxErrorsFor(total_found)

\* total_batches, line 556
total_batches == (total_parcels + batch_size - 1) \div batch_size

JobSizes == (1 .. MaxParcels) \cup {SmallJobLimit + 1}

----------------------------------------------------------------------------
(* The credential store, RapidAPIAuthenticator *)

\* Character codes: "a", "Z" for credential texts; "ZRN_" and "_END".
Alphabet == {97, 90}
Prefix == <<90, 82, 78, 95>>
Suffix == <<95, 69, 78, 68>>
PadChar == 61

\* len(geom_data) > 20, line 713
WkbMinLen == 20

\* len(ring) >= 4, lines 687 and 698
MinRingPoints == 4

RECURSIVE TextsOfLen(_)
TextsOfLen(n) ==
    IF n = 0 THEN {<<>>}
    ELSE {Append(t, c) : t \in TextsOfLen(n - 1), c \in Alphabet}

Texts == UNION {TextsOfLen(n) : n \in 0 .. MaxTextLen}

\* The base64 alphabet: the character of a 6-bit value.
B64Char(v) ==
    IF v < 26 THEN 65 + v
    ELSE IF v < 52 THEN 97 + (v - 26)
    ELSE IF v < 62 THEN 48 + (v - 52)
    ELSE IF v = 62 THEN 43 ELSE 47

IsB64Char(c) ==
    \/ c \in 65 .. 90
    \/ c \in 97 .. 122
    \/ c \in 48 .. 57
    \/ c \in {43, 47}

B64Value(c) ==
    IF c \in 65 .. 90 THEN c - 65
    ELSE IF c \in 97 .. 122 THEN c - 97 + 26
    ELSE IF c \in 48 .. 57 THEN c - 48 + 52
    ELSE IF c = 43 THEN 62 ELSE 63

\* base64.b64encode of a byte sequence
RECURSIVE B64Encode(_)
B64Encode(bs) ==
    IF Len(bs) = 0 THEN <<>>
    ELSE IF Len(bs) = 1 THEN
        LET v == bs[1] * 16
        IN <<B64Char(v \div 64), B64Char(v % 64), PadChar, PadChar>>
    ELSE IF Len(bs) = 2 THEN
        LET v == (bs[1] * 256 + bs[2]) * 4
        IN <<B64Char(v \div 4096), B64Char((v \div 64) % 64), B64Char(v % 64),
             PadChar>>
    ELSE
        LET v == bs[1] * 65536 + bs[2] * 256 + bs[3]
        IN <<B64Char(v \div 262144), B64Char((v \div 4096) % 64),
             B64Char((v \div 64) % 64), B64Char(v % 64)>>
           \o B64Encode(SubSeq(bs, 4, Len(bs)))

\* base64.b64decode of a string of base64 characters with its padding at
\* the end: <<TRUE, bytes>>, or <<FALSE, <<>>>> where binascii raises.
RECURSIVE B64Decode(_)
B64Decode(cs) ==
    IF Len(cs) = 0 THEN <<TRUE, <<>>>>
    ELSE IF Len(cs) < 4 THEN <<FALSE, <<>>>>
    ELSE IF ~(IsB64Char(cs[1]) /\ IsB64Char(cs[2])) THEN <<FALSE, <<>>>>
    ELSE IF cs[3] = PadChar /\ cs[4] = PadChar /\ Len(cs) = 4 THEN
        LET v == B64Value(cs[1]) * 64 + B64Value(cs[2])
        IN <<TRUE, <<v \div 16>>>>
    ELSE IF ~IsB64Char(cs[3]) THEN <<FALSE, <<>>>>
    ELSE IF cs[4] = PadChar /\ Len(cs) = 4 THEN
        LET v == B64Value(cs[1]) * 4096 + B64Value(cs[2]) * 64 + B64Value(cs[3])
        IN <<TRUE, <<v \div 1024, (v \div 4) % 256>>>>
    ELSE IF ~IsB64Char(cs[4]) THEN <<FALSE, <<>>>>
    ELSE
        LET v == B64Value(cs[1]) * 262144 + B64Value(cs[2]) * 4096
                 + B64Value(cs[3]) * 64 + B64Value(cs[4])
            rest == B64Decode(SubSeq(cs, 5, Len(cs)))
        IN IF rest[1]
           THEN <<TRUE, <<v \div 65536, (v \div 256) % 256, v % 256>> \o rest[2]>>
           ELSE <<FALSE, <<>>>>

\* A store that wraps the text in the markers without encoding it.
_encrypt_plain(text) == Prefix \o text \o Suffix

\* _encrypt, lines 144-150.  text.encode('utf-8') of an ASCII text is the
\* sequence of its character codes.
_encrypt(text) == Prefix \o B64Encode(text) \o Suffix

StartsWith(s, p) == Len(s) >= Len(p) /\ SubSeq(s, 1, Len(p)) = p
EndsWith(s, p) == Len(s) >= Len(p) /\ SubSeq(s, Len(s) - Len(p) + 1, Len(s)) = p

\* _decrypt, lines 152-160: "" for a text without the markers and where
\* decoding raises (bytes.decode('utf-8') raises on a byte above 127 that
\* starts no valid sequence).
_decrypt(encrypted_text) ==
    IF StartsWith(encrypted_text, Prefix) /\ EndsWith(encrypted_text, Suffix)
    THEN LET encoded == SubSeq(encrypted_text, 5, Len(encrypted_text) - 4)
             decoded == B64Decode(encoded)
         IN IF decoded[1] /\ \A i \in 1 .. Len(decoded[2]) : decoded[2][i] < 128
            THEN decoded[2]
            ELSE <<>>
    ELSE <<>>

\* self.settings.value(key, default)
Value(store, key, default) == IF key \in DOMAIN store THEN store[key] ELSE default

NoCredentials == [found |-> FALSE]

\* A reader that hands out whatever is stored, decodable or not.
get_saved_raw(store) ==
    LET encrypted_key == Value(store, "rapidapi_key_enc", <<>>)
        encrypted_token == Value(store, "bearer_token_enc", <<>>)
    IN IF encrypted_key = <<>> \/ encrypted_token = <<>> THEN NoCredentials
       ELSE [found |-> TRUE,
             rapidapi_key |-> _decrypt(encrypted_key),
             bearer_token |-> _decrypt(encrypted_token),
             subscription_plan |-> Value(store, "subscription_plan", "Saved"),
             is_working |-> Value(store, "is_working", TRUE)]

\* get_saved_credentials, lines 33-58: None, or the saved record.
get_saved_credentials(store) ==
    LET encrypted_key == Value(store, "rapidapi_key_enc", <<>>)
        encrypted_token == Value(store, "bearer_token_enc", <<>>)
    IN IF encrypted_key = <<>> \/ encrypted_token = <<>> THEN NoCredentials
       ELSE LET decrypted_key == _decrypt(encrypted_key)
                decrypted_token == _decrypt(encrypted_token)
            IN IF decrypted_key = <<>> \/ decrypted_token = <<>>
               THEN NoCredentials
               ELSE [found |-> TRUE,
                     rapidapi_key |-> decrypted_key,
                     bearer_token |-> decrypted_token,
                     subscription_plan |-> Value(store, "subscription_plan", "Saved"),
                     is_working |-> Value(store, "is_working", TRUE)]

\* A writer that encodes and stores before it looks at what it was given.
save_without_check(store, credentials) ==
    LET saved == [k \in DOMAIN store \cup
                        {"rapidapi_key_enc", "bearer_token_enc",
                         "subscription_plan", "last_validated", "is_working"} |->
                    CASE k = "rapidapi_key_enc" -> _encrypt(credentials.rapidapi_key)
                      [] k = "bearer_token_enc" -> _encrypt(credentials.bearer_token)
                      [] k = "subscription_plan" -> credentials.subscription_plan
                      [] k = "last_validated" -> "now"
                      [] k = "is_working" -> TRUE
                      [] OTHER -> store[k]]
    IN <<credentials.rapidapi_key # <<>> /\ credentials.bearer_token # <<>>, saved>>

\* save_credentials, lines 60-81: <<returned value, the store afterwards>>.
save_credentials(store, credentials) ==
    IF credentials.rapidapi_key = <<>> \/ credentials.bearer_token = <<>>
    THEN <<FALSE, store>>
    ELSE LET encrypted_key == _encrypt(credentials.rapidapi_key)
             encrypted_token == _encrypt(credentials.bearer_token)
             saved == [k \in DOMAIN store \cup
                             {"rapidapi_key_enc", "bearer_token_enc",
                              "subscription_plan", "last_validated", "is_working"} |->
                         CASE k = "rapidapi_key_enc" -> encrypted_key
                           [] k = "bearer_token_enc" -> encrypted_token
                           [] k = "subscription_plan" -> credentials.subscription_plan
                           [] k = "last_validated" -> "now"
                           [] k = "is_working" -> TRUE
                           [] OTHER -> store[k]]
         IN <<TRUE, saved>>

\* A clear that removes the status keys and leaves the key and the token.
clear_status_only(store) ==
    LET keys == {"subscription_plan", "last_validated", "is_working"}
    IN <<TRUE, [k \in DOMAIN store \ keys |-> store[k]]>>

\* clear_credentials, lines 83-91: <<returned value, the store afterwards>>.
clear_credentials(store) ==
    LET keys == {"rapidapi_key_enc", "bearer_token_enc", "subscription_plan",
                 "last_validated", "is_working"}
    IN <<TRUE, [k \in DOMAIN store \ keys |-> store[k]]>>

\* The methods class RapidAPIAuthenticator defines (lines 24-160); QObject
\* has none of the names the algorithm calls.
AuthenticatorMethods ==
    {"get_saved_credentials", "save_credentials", "clear_credentials",
     "validate_credentials", "_encrypt", "_decrypt"}

EmptyStore == [k \in {} |-> <<>>]

\* What QSettings may hold when the plugin starts: nothing, or values this
\* code did not write (no markers; markers around undecodable text).
ForeignStores ==
    {[k \in {"rapidapi_key_enc", "bearer_token_enc"} |-> v] :
        v \in {<<97, 90>>, Prefix \o <<81>> \o Suffix}}

\* The tokens handed to save_credentials: none, or one text.  Key and
\* token go through the same _encrypt and _decrypt; the keys range over
\* Texts.
Tokens == {<<>>, <<90, 97>>}

Credentials ==
    {[rapidapi_key |-> k, bearer_token |-> t, subscription_plan |-> "Manual Entry"] :
        k \in Texts, t \in Tokens}

\* What is known of the store's writers: the last call of save_credentials
\* or clear_credentials, its argument and what it returned.
NoCall ==
    [op |-> "none",
     credentials |-> [rapidapi_key |-> <<>>, bearer_token |-> <<>>,
                      subscription_plan |-> ""],
     returned |-> FALSE]

SaveCall(credentials, returned) ==
    [op |-> "save", credentials |-> credentials, returned |-> returned]

ClearCall(returned) == [NoCall EXCEPT !.op = "clear", !.returned = returned]

----------------------------------------------------------------------------
(* The credentials dialog, SmartAuthDialog (src/rapidapi_auth.py, lines    *)
(* 163-1148).  The dialog is its two input fields, the enabled state of    *)
(* its four buttons, self.credentials, and the pair that last passed       *)
(* validate_credentials in it.  What the user types may hold blanks.       *)

Blank == 32
InputAlphabet == {97, Blank}

\* Input texts have at most MaxInputLen characters.
MaxInputLen == 2

RECURSIVE InputsOfLen(_)
InputsOfLen(n) ==
    IF n = 0 THEN {<<>>}
    ELSE {Append(t, c) : t \in InputsOfLen(n - 1), c \in InputAlphabet}

InputTexts == UNION {InputsOfLen(n) : n \in 0 .. MaxInputLen}

\* str.strip() of a text whose only whitespace is the blank
RECURSIVE strip(_)
strip(text) ==
    IF text = <<>> THEN <<>>
    ELSE IF Head(text) = Blank THEN strip(Tail(text))
    ELSE IF text[Len(text)] = Blank THEN strip(SubSeq(text, 1, Len(text) - 1))
    ELSE text

NoPair == <<>>

\* What the validation request of lines 108-142 may meet.
ValidationAnswers ==
    {"200 success", "200 no success", "200 not json", "401", "403", "429",
     "500", "timeout", "connection error"}

\* validate_credentials, lines 93-142: only a 200 whose body says success
\* validates.
validate_credentials(api_key, bearer_token, answer) ==
    IF api_key = <<>> \/ bearer_token = <<>> THEN FALSE
    ELSE answer = "200 success"

\* No dialog object exists.
ClosedDialog ==
    [open |-> FALSE, api_key_input |-> <<>>, bearer_input |-> <<>>,
     test_btn |-> FALSE, save_btn |-> FALSE, use_btn |-> FALSE,
     clear_btn |-> FALSE, passed |-> NoPair, credentials |-> NoPair]

\* __init__ and setup_ui, lines 166-176: empty fields, Test (698), Save &
\* Use (723) and Use (877) disabled, Clear as the toolkit creates it.
setup_ui ==
    [ClosedDialog EXCEPT !.open = TRUE, !.clear_btn = TRUE]

\* on_input_changed, lines 960-1018: sets Test, and a label.
on_input_changed(d) ==
    [d EXCEPT !.test_btn = strip(d.api_key_input) # <<>>
                           /\ strip(d.bearer_input) # <<>>]

\* api_key_input.setText / clear / typing: textChanged (line 522) fires
\* when the text changes.
SetKey(d, text) ==
    IF text = d.api_key_input THEN d
    ELSE on_input_changed([d EXCEPT !.api_key_input = text])

\* bearer_input, line 587
SetToken(d, text) ==
    IF text = d.bearer_input THEN d
    ELSE on_input_changed([d EXCEPT !.bearer_input = text])

\* load_existing_credentials, lines 906-954
load_existing_credentials(d, store) ==
    LET saved_creds == get_saved_credentials(store)
    IN IF saved_creds.found
       THEN [SetToken(SetKey(d, saved_creds.rapidapi_key),
                      saved_creds.bearer_token)
                EXCEPT !.use_btn = TRUE, !.clear_btn = TRUE]
       ELSE [d EXCEPT !.clear_btn = FALSE]

\* accept_credentials, lines 1126-1142
accept_credentials(d) ==
    LET api_key == strip(d.api_key_input)
        bearer_token == strip(d.bearer_input)
    IN IF api_key = <<>> \/ bearer_token = <<>> THEN d
       ELSE [d EXCEPT !.credentials = <<api_key, bearer_token>>,
                      !.open = FALSE]

runVars == <<pc, cancelVars, queryVars, loopVars, poolVars, countVars,
             outVars, noteVars, geomVars>>

\* manage_credentials (src/zornade_parcel_downloader.py, lines 212-217)
\* builds the dialog and shows it.
OpenDialog ==
    /\ ~dialog.open
    /\ dialog' = load_existing_credentials(setup_ui, settings)
    /\ UNCHANGED <<settings, last_call, runVars>>

\* The user changes the key field.
EditKey ==
    /\ dialog.open
    /\ \E text \in InputTexts \ {dialog.api_key_input} :
          dialog' = SetKey(dialog, text)
    /\ UNCHANGED <<settings, last_call, runVars>>

\* The user changes the token field.
EditToken ==
    /\ dialog.open
    /\ \E text \in InputTexts \ {dialog.bearer_input} :
          dialog' = SetToken(dialog, text)
    /\ UNCHANGED <<settings, last_call, runVars>>

\* test_credentials, lines 1028-1078, on a click of Test.
test_credentials ==
    /\ dialog.open
    /\ dialog.test_btn
    /\ LET api_key == strip(dialog.api_key_input)
           bearer_token == strip(dialog.bearer_input)
       IN IF api_key = <<>> \/ bearer_token = <<>>
          THEN UNCHANGED dialog
          ELSE \E answer \in ValidationAnswers :
                  IF validate_credentials(api_key, bearer_token, answer)
                  THEN dialog' = [dialog EXCEPT !.test_btn = TRUE,
                                                !.save_btn = TRUE,
                                                !.use_btn = TRUE,
                                                !.passed = <<api_key, bearer_token>>]
                  ELSE dialog' = [dialog EXCEPT !.test_btn = TRUE,
                                                !.save_btn = FALSE]
    /\ UNCHANGED <<settings, last_call, runVars>>

\* save_and_use, lines 1080-1096, on a click of Save & Use.
save_and_use ==
    /\ dialog.open
    /\ dialog.save_btn
    /\ LET credentials == [rapidapi_key |-> strip(dialog.api_key_input),
                           bearer_token |-> strip(dialog.bearer_input),
                           subscription_plan |-> "Manual Entry"]
           saved == save_credentials(settings, credentials)
       IN /\ settings' = saved[2]
          /\ last_call' = SaveCall(credentials, saved[1])
          /\ dialog' = IF saved[1]
                       THEN accept_credentials(
                                load_existing_credentials(dialog, saved[2]))
                       ELSE dialog
    /\ UNCHANGED runVars

\* The dialog's clear_credentials, lines 1098-1124, on a click of Clear.
clear_clicked ==
    /\ dialog.open
    /\ dialog.clear_btn
    /\ \E reply \in {"Yes", "No"} :
          IF reply = "Yes"
          THEN LET cleared == clear_credentials(settings)
               IN /\ settings' = cleared[2]
                  /\ last_call' = ClearCall(cleared[1])
                  /\ dialog' =
                        IF cleared[1]
                        THEN load_existing_credentials(
                                 [SetToken(SetKey(dialog, <<>>), <<>>)
                                     EXCEPT !.save_btn = FALSE,
                                            !.use_btn = FALSE],
                                 cleared[2])
                        ELSE dialog
          ELSE UNCHANGED <<settings, last_call, dialog>>
    /\ UNCHANGED runVars

\* A click of Use: accept_credentials (line 898).
use_clicked ==
    /\ dialog.open
    /\ dialog.use_btn
    /\ dialog' = accept_credentials(dialog)
    /\ UNCHANGED <<settings, last_call, runVars>>

\* A click of Close: reject (line 874).
reject ==
    /\ dialog.open
    /\ dialog' = [dialog EXCEPT !.open = FALSE]
    /\ UNCHANGED <<settings, last_call, runVars>>

----------------------------------------------------------------------------
(* The data of a successful result and the feature built from it,          *)
(* lines 598-757.  A record is what the coordinator reads of parcel_info:  *)
(* whether its numeric attributes convert, and its geom.  A ring is        *)
(* recorded by its number of coordinate pairs; a string geom is its        *)
(* characters.  shape is what the host library (QgsGeometry.fromWkt,       *)
(* fromWkb) makes of the geom it is handed: a valid geometry, a geometry   *)
(* that fails isGeosValid(), or an empty one.                              *)

NoGeom == [kind |-> "missing", type |-> "", rings |-> <<>>, polygons |-> <<>>,
           text |-> <<>>, shape |-> "empty"]

PolygonGeom(rings, shape) ==
    [NoGeom EXCEPT !.kind = "dict", !.type = "Polygon", !.rings = rings,
                   !.shape = shape]

MultiPolygonGeom(polygons, shape) ==
    [NoGeom EXCEPT !.kind = "dict", !.type = "MultiPolygon",
                   !.polygons = polygons, !.shape = shape]

TextGeom(text, shape) ==
    [NoGeom EXCEPT !.kind = "str", !.text = text, !.shape = shape]

\* '0123456789ABCDEFabcdef', line 713
HexDigits == (48 .. 57) \cup (65 .. 70) \cup (97 .. 102)

\* A test that takes a string of exactly 20 digits for binary too.
LooksLikeWkbFrom20(text) ==
    /\ Len(text) >= WkbMinLen
    /\ \A i \in 1 .. Len(text) : text[i] \in HexDigits

\* len(geom_data) > 20 and all(c in '0123456789ABCDEFabcdef' ...), line 713
LooksLikeWkb(text) ==
    /\ Len(text) > WkbMinLen
    /\ \A i \in 1 .. Len(text) : text[i] \in HexDigits

\* bytes.fromhex (line 714) raises ValueError on an odd number of digits.
FromHexRaises(text) == Len(text) % 2 = 1

\* Lines 686-689 and 697-700: the rings of at least 4 coordinate pairs.
KeepRings(rings) == SelectSeq(rings, LAMBDA n : n >= MinRingPoints)

\* Lines 684-691: the polygons that keep a ring, with the rings they keep.
KeepPolygons(polygons) ==
    SelectSeq([i \in 1 .. Len(polygons) |-> KeepRings(polygons[i])],
              LAMBDA rings : rings # <<>>)

\* The local variable qgis_geom before its first assignment.
Unbound ==
    [via |-> "unbound", rings |-> <<>>, polygons |-> <<>>, text |-> <<>>,
     shape |-> "empty"]

\* QgsGeometry.fromWkt / fromWkb: the geometry the host makes of its input.
Geometry(via, rings, polygons, text, shape) ==
    [via |-> via, rings |-> rings, polygons |-> polygons, text |-> text,
     shape |-> shape]

\* not qgis_geom.isEmpty() and qgis_geom.isGeosValid(), lines 705 and 718
Usable(g) == g.shape = "valid"

\* not qgis_geom.isEmpty(), line 724
NotEmpty(g) == g.shape # "empty"

Outcome(added, geom, local) == [added |-> added, geom |-> geom, local |-> local]

\* Lines 678-710: a Polygon or MultiPolygon dict.  qgis_geom is assigned
\* only when a ring is kept; line 705 then looks at whatever qgis_geom the
\* function's locals hold.
FromGeoJson(g, local) ==
    IF g.rings = <<>> /\ g.polygons = <<>>
    THEN Outcome(FALSE, Unbound, local)
    ELSE LET rings == KeepRings(g.rings)
             polygons == KeepPolygons(g.polygons)
             built == IF g.type = "MultiPolygon"
                      THEN IF polygons # <<>>
                           THEN Geometry("geojson", <<>>, polygons, <<>>, g.shape)
                           ELSE local
                      ELSE IF rings # <<>>
                           THEN Geometry("geojson", rings, <<>>, <<>>, g.shape)
                           ELSE local
         IN IF built.via # "unbound" /\ Usable(built)
            THEN Outcome(TRUE, built, built)
            ELSE Outcome(FALSE, Unbound, built)

\* Lines 711-726: a string.
FromText(g, local) ==
    IF LooksLikeWkb(g.text)
    THEN IF FromHexRaises(g.text)
         THEN Outcome(FALSE, Unbound, local)
         ELSE LET built == Geometry("wkb", <<>>, <<>>, g.text, g.shape)
              IN IF Usable(built)
                 THEN Outcome(TRUE, built, built)
                 ELSE Outcome(FALSE, Unbound, built)
    ELSE LET built == Geometry("wkt", <<>>, <<>>, g.text, g.shape)
         IN IF NotEmpty(built)
            THEN Outcome(TRUE, built, built)
            ELSE Outcome(FALSE, Unbound, built)

\* Lines 601-757 for one record: whether sink.addFeature is reached, with
\* which geometry, and what qgis_geom holds afterwards.  A numeric attribute
\* that does not convert raises before the geometry is looked at (line 753).
ProcessRecord(rec, local) ==
    IF ~rec.attributes_convert
    THEN Outcome(FALSE, Unbound, local)
    ELSE IF rec.geom.kind = "missing"
    THEN Outcome(FALSE, Unbound, local)
    ELSE IF rec.geom.kind = "dict" /\ rec.geom.type \in {"Polygon", "MultiPolygon"}
    THEN FromGeoJson(rec.geom, local)
    ELSE IF rec.geom.kind = "str"
    THEN FromText(rec.geom, local)
    ELSE Outcome(FALSE, Unbound, local)

Record(convert, geom) == [attributes_convert |-> convert, geom |-> geom]

\* n characters c
Repeat(c, n) == [i \in 1 .. n |-> c]

\* Strings a geom can be: hexadecimal digits up to and beyond the length of
\* line 713, the same with one character that is no digit, and a short text.
GeomTexts ==
    {Repeat(65, n) : n \in WkbMinLen .. (WkbMinLen + MaxTextExtra)}
    \cup {Repeat(65, WkbMinLen + MaxTextExtra - 1) \o <<71>>}
    \cup {<<80, 79, 76, 89>>}

Shapes == {"valid", "invalid", "empty"}

\* Ring lists a Polygon can have: rings of 3 or 4 coordinate pairs.
RingLists == {<<>>, <<3>>, <<4>>, <<4, 3>>}

\* The records of the jobs that look at geometries.
Records ==
    {Record(FALSE, NoGeom), Record(TRUE, NoGeom),
     Record(TRUE, [NoGeom EXCEPT !.kind = "other"]),
     Record(TRUE, [NoGeom EXCEPT !.kind = "dict", !.type = "Point"])}
    \cup {Record(TRUE, PolygonGeom(r, sh)) :
            r \in RingLists, sh \in {"valid", "invalid"}}
    \cup {Record(TRUE, MultiPolygonGeom(<<r>>, "valid")) : r \in RingLists}
    \cup {Record(TRUE, TextGeom(t, sh)) : t \in GeomTexts, sh \in Shapes}

\* The records of the other jobs: a sound polygon, no geometry, an
\* attribute that does not convert.
PlainRecords ==
    {Record(TRUE, PolygonGeom(<<4>>, "valid")), Record(TRUE, NoGeom),
     Record(FALSE, NoGeom)}

\* The records the detail endpoint has for the identifiers of a run.
Served(name) == IF name = "rich" THEN Records ELSE PlainRecords

----------------------------------------------------------------------------
(* checkParameterValues and the first stage of processAlgorithm *)

NoResponse ==
    [transport |-> "none", status |-> 0, json |-> "none", success |-> FALSE,
     has_data |-> FALSE, count |-> 0]

\* Payload {success: true, data: [count identifiers]} with status 200.
OkResponse(count) ==
    [transport |-> "ok", status |-> 200, json |-> "object", success |-> TRUE,
     has_data |-> TRUE, count |-> count]

\* What requests.post to get-parcels (line 394) can come back with: an
\* exception of requests, or a status with a body.
RegionResponses ==
    {[NoResponse EXCEPT !.transport = t] :
        t \in {"connection_error", "timeout", "request_exception"}}
    \cup {[NoResponse EXCEPT !.transport = "ok", !.status = st] :
        st \in {401, 403, 429, 500}}
    \cup {[NoResponse EXCEPT !.transport = "ok", !.status = 200, !.json = "invalid"]}
    \cup {[NoResponse EXCEPT !.transport = "ok", !.status = 200, !.json = "object",
                              !.success = su] : su \in BOOLEAN}
    \cup {[OkResponse(n) EXCEPT !.success = su] :
        n \in {0} \cup JobSizes, su \in BOOLEAN}

\* A handler that logs the failure and lets the run end as an empty result.
Swallowed(message) == [kind |-> "empty", message |-> message, count |-> 0]

\* reportError(message, fatalError=True) and return {}: lines 789-800
Fatal(message) == [kind |-> "fatal", message |-> message, count |-> 0]

\* authenticator.update_credential_status(...), lines 399, 406, 426: the
\* attribute lookup raises AttributeError when the class has no such method.
UpdateStatusRaises == "update_credential_status" \notin AuthenticatorMethods

AttributeErrorReport ==
    Fatal("Unexpected error: 'RapidAPIAuthenticator' object has no attribute 'update_credential_status'")

\* Lines 394-463 with the handlers of lines 789-800: what the try block does
\* with the response.  A QgsProcessingException raised inside the block is
\* an Exception and is taken by the last handler (line 798).
RegionOutcome(resp) ==
    CASE resp.transport = "connection_error" ->
            Fatal("Network connection error")
      [] resp.transport = "timeout" ->
            Fatal("Request timeout")
      [] resp.transport = "request_exception" ->
            Fatal("Network error")
      [] resp.transport = "ok" /\ resp.status = 401 ->
            IF UpdateStatusRaises THEN AttributeErrorReport
            ELSE Fatal("Unexpected error: Authentication failed")
      [] resp.transport = "ok" /\ resp.status = 403 ->
            IF UpdateStatusRaises THEN AttributeErrorReport
            ELSE Fatal("Unexpected error: Access forbidden")
      [] resp.transport = "ok" /\ resp.status = 429 ->
            Fatal("Unexpected error: Rate limit exceeded")
      [] resp.transport = "ok" /\ resp.status \notin {200, 401, 403, 429} ->
            Fatal("Unexpected error: API request failed with status")
      [] resp.transport = "ok" /\ resp.status = 200 ->
            IF UpdateStatusRaises THEN AttributeErrorReport
            ELSE IF resp.json = "invalid"
            THEN Fatal("Unexpected error: Invalid JSON response from API")
            ELSE IF ~(resp.success /\ resp.has_data)
            THEN Fatal("Unexpected error: API error")
            ELSE IF resp.count = 0
            THEN [kind |-> "empty", message |-> "", count |-> 0]
            ELSE [kind |-> "proceed", message |-> "", count |-> resp.count]

\* The state of the variables of one run before the run.
FreshRun ==
    /\ canceled' = FALSE
    /\ cancel_seen' = {}
    /\ response' = NoResponse
    /\ total_found' = 0
    /\ next_start' = 0
    /\ batch_start' = 0
    /\ batch_end' = 0
    /\ batches' = <<>>
    /\ submitted' = 0
    /\ pending' = 0
    /\ running' = 0
    /\ finished' = 0
    /\ requests' = [i \in 1 .. (SmallJobLimit + 1) |-> 0]
    /\ batch_results' = [ok |-> 0, failed |-> 0]
    /\ processed_count' = 0
    /\ error_count' = 0
    /\ features' = 0
    /\ progress' = <<>>
    /\ fatal_reports' = 0
    /\ report' = ""
    /\ rate_limited' = FALSE
    /\ worker_log' = 0
    /\ summary' = <<>>
    /\ qgis_geom' = Unbound
    /\ sink' = {}
    /\ catalog' = catalog

\* The user saves credentials in the dialog (save_credentials).
SaveCredentials ==
    /\ pc \in {"idle", "checked", "done"}
    /\ \E credentials \in Credentials :
          LET saved == save_credentials(settings, credentials)
          IN /\ settings' = saved[2]
             /\ last_call' = SaveCall(credentials, saved[1])
    /\ UNCHANGED <<pc, cancelVars, queryVars, loopVars, poolVars, countVars,
                   outVars>>
    /\ UNCHANGED noteVars
    /\ UNCHANGED geomVars
    /\ UNCHANGED dialog

\* The user clears the credentials in the dialog (clear_credentials).
ClearCredentials ==
    /\ pc \in {"idle", "checked", "done"}
    /\ LET cleared == clear_credentials(settings)
       IN /\ settings' = cleared[2]
          /\ last_call' = ClearCall(cleared[1])
    /\ UNCHANGED <<pc, cancelVars, queryVars, loopVars, poolVars, countVars,
                   outVars>>
    /\ UNCHANGED noteVars
    /\ UNCHANGED geomVars
    /\ UNCHANGED dialog

\* checkParameterValues, lines 193-217, at the start of a run.
CheckParameterValues ==
    /\ pc \in {"idle", "done"}
    /\ FreshRun
    /\ \E bbox_ok \in BOOLEAN :
          IF ~get_saved_credentials(settings).found
          THEN /\ error' = "No API credentials found"
               /\ result' = "raised"
               /\ pc' = "done"
          ELSE IF ~bbox_ok
          THEN /\ error' = "Bounding Box is required"
               /\ result' = "raised"
               /\ pc' = "done"
          ELSE /\ error' = ""
               /\ result' = "none"
               /\ pc' = "checked"
    /\ UNCHANGED settings
    /\ UNCHANGED dialogVars

\* processAlgorithm, lines 228-372: credentials, bounding box, sink, headers.
ProcessStart ==
    /\ pc = "checked"
    /\ \E sink_ok \in BOOLEAN :
          IF ~get_saved_credentials(settings).found
          THEN /\ error' = "No credentials available"
               /\ result' = "raised"
               /\ pc' = "done"
          ELSE IF ~sink_ok
          THEN /\ error' = "invalidSinkError"
               /\ result' = "raised"
               /\ pc' = "done"
          ELSE /\ pc' = "query"
               /\ UNCHANGED <<error, result>>
    /\ UNCHANGED <<settings, cancelVars, queryVars, loopVars, poolVars,
                   countVars, fatal_reports, report>>
    /\ UNCHANGED noteVars
    /\ UNCHANGED geomVars
    /\ UNCHANGED dialogVars

\* Lines 374-481 and 789-800: the region query and what follows from its
\* response, up to the batch loop.
RegionQuery ==
    /\ pc = "query"
    /\ \E resp \in RegionResponses :
          LET outcome == RegionOutcome(resp)
          IN /\ response' = resp
             /\ CASE outcome.kind = "fatal" ->
                       /\ fatal_reports' = fatal_reports + 1
                       /\ report' = outcome.message
                       /\ result' = "empty"
                       /\ pc' = "done"
                       /\ UNCHANGED <<total_found, progress>>
                  [] outcome.kind = "empty" ->
                       /\ result' = "dest_id"
                       /\ pc' = "done"
                       /\ UNCHANGED <<total_found, progress, fatal_reports, report>>
                  [] outcome.kind = "proceed" ->
                       /\ total_found' = outcome.count
                       /\ progress' = <<0>>
                       /\ pc' = "loop"
                       /\ UNCHANGED <<result, fatal_reports, report>>
    /\ UNCHANGED <<settings, cancelVars, loopVars, poolVars, batch_results,
                   processed_count, error_count, features, error>>
    /\ UNCHANGED noteVars
    /\ UNCHANGED geomVars
    /\ UNCHANGED dialogVars

Init ==
    /\ settings \in {EmptyStore} \cup ForeignStores
    /\ pc = "idle"
    /\ canceled = FALSE
    /\ cancel_seen = {}
    /\ response = NoResponse
    /\ total_found = 0
    /\ next_start = 0
    /\ batch_start = 0
    /\ batch_end = 0
    /\ batches = <<>>
    /\ submitted = 0
    /\ pending = 0
    /\ running = 0
    /\ finished = 0
    /\ requests = [i \in 1 .. (SmallJobLimit + 1) |-> 0]
    /\ batch_results = [ok |-> 0, failed |-> 0]
    /\ processed_count = 0
    /\ error_count = 0
    /\ features = 0
    /\ progress = <<>>
    /\ fatal_reports = 0
    /\ report = ""
    /\ error = ""
    /\ result = "none"
    /\ rate_limited = FALSE
    /\ worker_log = 0
    /\ summary = <<>>
    /\ catalog = "plain"
    /\ qgis_geom = Unbound
    /\ sink = {}
    /\ last_call = NoCall
    /\ dialog = ClosedDialog

Next ==
    \/ SaveCredentials
    \/ ClearCredentials
    \/ CheckParameterValues
    \/ ProcessStart
    \/ RegionQuery

Spec == Init /\ [][Next]_vars

\* The credentials dialog over the same store, from the same start.
DialogNext ==
    \/ OpenDialog
    \/ EditKey
    \/ EditToken
    \/ test_credentials
    \/ save_and_use
    \/ clear_clicked
    \/ use_clicked
    \/ reject

DialogSpec == Init /\ [][DialogNext]_vars

----------------------------------------------------------------------------
(* The detail endpoint and download_parcel_info *)

\* What one request to get-parcel-info can come back with.
DetailResponses ==
    {"ok", "api_error", "bad_json", "http_404", "http_429", "http_500",
     "http_other", "timeout", "connection_error", "exception"}

\* A worker that hands a body it could not parse on as data.
download_passes_bad_json(resp) ==
    IF resp \in {"ok", "bad_json"}
    THEN [success |-> TRUE, msg |-> "data"]
    ELSE [success |-> FALSE, msg |-> "failed"]

\* download_parcel_info, lines 483-535: the second and third component of the
\* tuple it returns for a response.  Every path returns; none raises.
download_parcel_info(resp) ==
    CASE resp = "ok"               -> [success |-> TRUE,  msg |-> "data"]
      [] resp = "api_error"        -> [success |-> FALSE, msg |-> "API Error"]
      [] resp = "bad_json"         -> [success |-> FALSE, msg |-> "Invalid JSON response"]
      [] resp = "http_404"         -> [success |-> FALSE, msg |-> "Parcel not found"]
      [] resp = "http_429"         -> [success |-> FALSE, msg |-> "Rate limited"]
      [] resp = "http_500"         -> [success |-> FALSE, msg |-> "Server error (500)"]
      [] resp = "http_other"       -> [success |-> FALSE, msg |-> "HTTP status"]
      [] resp = "timeout"          -> [success |-> FALSE, msg |-> "Request timeout"]
      [] resp = "connection_error" -> [success |-> FALSE, msg |-> "Connection error"]
      [] resp = "exception"        -> [success |-> FALSE, msg |-> "Exception"]

\* A worker that sends its request a second time.
PostsTwice(fid) == 2

\* requests.post calls made by one call of download_parcel_info: the one of
\* lines 495-500, in no loop.
Posts(fid) == 1

----------------------------------------------------------------------------
(* The batch loop, lines 540-776 *)

\* batch_results holds tuples whose order is the order of completion, which
\* is arbitrary; the loop of line 594 treats each tuple alone.  The list is
\* recorded by how many successful and failed results it holds.
NoResults == [ok |-> 0, failed |-> 0]
Count(bag) == bag.ok + bag.failed
Put(bag, success) ==
    IF success THEN [bag EXCEPT !.ok = @ + 1] ELSE [bag EXCEPT !.failed = @ + 1]
TakeNothing(bag, success) == bag
Take(bag, success) ==
    IF success THEN [bag EXCEPT !.ok = @ - 1] ELSE [bag EXCEPT !.failed = @ - 1]
Has(bag, success) == IF success THEN bag.ok > 0 ELSE bag.failed > 0

\* A loop that steps one identifier too far.
NextStartSkips(start, size) == start + size + 1

\* range(0, total_parcels, batch_size), line 540
NextStart(start, size) == start + size

\* batch_end, line 553
BatchEnd(start, size, total) == Min(start + size, total)

\* A threshold that is one failure late.
OverBudgetLate(errors, budget) == errors > budget + 1

\* the error threshold, line 546
OverBudget(errors, budget) == errors > budget

\* A progress that leaves out the factor 100.
ProgressFraction(end, total) == end \div total

\* progress, line 766.  int(batch_end / total_parcels * 100) is computed in
\* floating point; for every batch_end the loop produces with the job sizes
\* explored here it equals the integer quotient.
ProgressValue(end, total) == (end * 100) \div total

\* The with block of line 566 ends in executor.shutdown(wait=True): the
\* coordinator goes on when no future is queued or running.
DrainedQueueOnly(queued, inflight) == queued = 0
Drained(queued, inflight) == queued = 0 /\ inflight = 0

\* The summary without the line about the errors.
SummaryWithoutErrors(processed, total, errors) ==
    <<<<"completed", processed, total>>>>
    \o (IF processed = 0 THEN <<<<"none_processed">>>> ELSE <<>>)

\* Lines 778-787: the lines of the final summary.
Summary(processed, total, errors) ==
    <<<<"completed", processed, total>>>>
    \o (IF errors > 0 THEN <<<<"errors", errors>>>> ELSE <<>>)
    \o (IF processed = 0 THEN <<<<"none_processed">>>> ELSE <<>>)

\* Lines 778-812: final summary, styling, return of the output layer id.
Finish ==
    /\ pc' = "done"
    /\ result' = "dest_id"
    /\ summary' = Summary(processed_count, total_parcels, error_count)
    /\ UNCHANGED <<report, error>>

\* The user cancels (QgsFeedback.cancel); the flag is never reset.
Cancel ==
    /\ pc # "done"
    /\ ~canceled
    /\ canceled' = TRUE
    /\ UNCHANGED <<settings, pc, cancel_seen, queryVars, loopVars, poolVars,
                   countVars, outVars>>
    /\ UNCHANGED noteVars
    /\ UNCHANGED geomVars
    /\ UNCHANGED dialogVars

\* range() is exhausted: the loop ends.
LoopExhausted ==
    /\ pc = "loop"
    /\ next_start >= total_parcels
    /\ Finish
    /\ UNCHANGED <<settings, cancelVars, queryVars, loopVars, poolVars,
                   countVars, fatal_reports>>
    /\ UNCHANGED <<rate_limited, worker_log>>
    /\ UNCHANGED geomVars
    /\ UNCHANGED dialogVars

\* A loop head that notes the cancellation and goes on (no break).
LoopCancelledGoesOn ==
    /\ pc = "loop"
    /\ next_start < total_parcels
    /\ canceled
    /\ cancel_seen' = cancel_seen \cup {"loop"}
    /\ pc' = "threshold"
    /\ UNCHANGED <<settings, canceled, queryVars, loopVars, poolVars,
                   countVars, outVars>>
    /\ UNCHANGED noteVars
    /\ UNCHANGED geomVars
    /\ UNCHANGED dialogVars

\* Lines 541-543: cancelled at the head of the loop.
LoopCancelled ==
    /\ pc = "loop"
    /\ next_start < total_parcels
    /\ canceled
    /\ cancel_seen' = cancel_seen \cup {"loop"}
    /\ Finish
    /\ UNCHANGED <<settings, canceled, queryVars, loopVars, poolVars,
                   countVars, fatal_reports>>
    /\ UNCHANGED <<rate_limited, worker_log>>
    /\ UNCHANGED geomVars
    /\ UNCHANGED dialogVars

\* Line 541, not cancelled: on to the error threshold.
LoopContinue ==
    /\ pc = "loop"
    /\ next_start < total_parcels
    /\ ~canceled
    /\ pc' = "threshold"
    /\ UNCHANGED <<settings, cancelVars, queryVars, loopVars, poolVars,
                   countVars, outVars>>
    /\ UNCHANGED noteVars
    /\ UNCHANGED geomVars
    /\ UNCHANGED dialogVars

\* Lines 546-551: the error threshold is passed at the head of the loop.
LoopOverBudget ==
    /\ pc = "threshold"
    /\ OverBudget(error_count, max_errors)
    /\ fatal_reports' = fatal_reports + 1
    /\ pc' = "done"
    /\ result' = "dest_id"
    /\ report' = "Too many errors encountered"
    /\ summary' = Summary(processed_count, total_parcels, error_count)
    /\ UNCHANGED <<settings, cancelVars, queryVars, loopVars, poolVars,
                   countVars, error>>
    /\ UNCHANGED <<rate_limited, worker_log>>
    /\ UNCHANGED geomVars
    /\ UNCHANGED dialogVars

\* Lines 553-566: the next batch and its executor.
StartBatch ==
    /\ pc = "threshold"
    /\ ~OverBudget(error_count, max_errors)
    /\ batch_start' = next_start
    /\ batch_end' = BatchEnd(next_start, batch_size, total_parcels)
    /\ next_start' = NextStart(next_start, batch_size)
    /\ batches' = Append(batches, <<batch_start', batch_end'>>)
    /\ submitted' = 0
    /\ batch_results' = NoResults
    /\ pc' = "submit"
    /\ UNCHANGED <<settings, cancelVars, queryVars, pending, running, finished,
                   requests, processed_count, error_count, features, progress,
                   outVars>>
    /\ UNCHANGED noteVars
    /\ UNCHANGED geomVars
    /\ UNCHANGED dialogVars

\* Lines 567-570: executor.submit for the next identifier of current_batch.
Submit ==
    /\ pc = "submit"
    /\ submitted' = submitted + 1
    /\ pending' = pending + 1
    /\ pc' = IF batch_start + submitted' >= batch_end THEN "collect" ELSE "submit"
    /\ UNCHANGED <<settings, cancelVars, queryVars, loopVars, running, finished,
                   requests, countVars, outVars>>
    /\ UNCHANGED noteVars
    /\ UNCHANGED geomVars
    /\ UNCHANGED dialogVars

\* A worker thread takes the oldest queued task and sends its request
\* (lines 489-500).
WorkerStart ==
    /\ pending > 0
    /\ running < MaxWorkers(batch_size)
    /\ LET batch_index == submitted - pending
           fid == batch_start + batch_index + 1
       IN /\ requests' = [requests EXCEPT ![fid] = @ + Posts(fid)]
          /\ worker_log' = IF batch_index = 0 THEN worker_log + 1 ELSE worker_log
    /\ pending' = pending - 1
    /\ running' = running + 1
    /\ UNCHANGED <<settings, pc, cancelVars, queryVars, loopVars, submitted,
                   finished, countVars, outVars>>
    /\ UNCHANGED <<rate_limited, summary>>
    /\ UNCHANGED geomVars
    /\ UNCHANGED dialogVars

\* A request resolves and download_parcel_info returns (lines 502-535): the
\* future is finished.  Nothing reads what it holds before future.result()
\* (line 581), so the response is drawn there.
WorkerFinish ==
    /\ running > 0
    /\ running' = running - 1
    /\ finished' = finished + 1
    /\ UNCHANGED <<settings, pc, cancelVars, queryVars, loopVars, submitted,
                   pending, requests, countVars, outVars>>
    /\ UNCHANGED noteVars
    /\ UNCHANGED geomVars
    /\ UNCHANGED dialogVars

\* A collection loop that waits for one result more than the batch has.
CollectWaitsForOneMore ==
    /\ pc = "collect"
    /\ ~canceled
    /\ finished > 0
    /\ finished' = finished - 1
    /\ \E resp \in DetailResponses :
          /\ batch_results' = Put(batch_results, download_parcel_info(resp).success)
          /\ rate_limited' = (rate_limited \/ resp = "http_429")
    /\ pc' = IF Count(batch_results') > batch_end - batch_start
             THEN "shutdown" ELSE "collect"
    /\ UNCHANGED <<settings, cancelVars, queryVars, loopVars, submitted,
                   pending, running, requests, processed_count, error_count,
                   features, progress, outVars>>
    /\ UNCHANGED <<worker_log, summary>>
    /\ UNCHANGED geomVars
    /\ UNCHANGED dialogVars

\* Lines 573-582, not cancelled: as_completed yields a finished future and
\* its result, what download_parcel_info returned for the response the
\* request got, is appended.  After the last future the with block is left.
\* The future is done, so result(timeout=25) neither waits nor raises.
Collect ==
    /\ pc = "collect"
    /\ ~canceled
    /\ finished > 0
    /\ finished' = finished - 1
    /\ \E resp \in DetailResponses :
          /\ batch_results' = Put(batch_results, download_parcel_info(resp).success)
          /\ rate_limited' = (rate_limited \/ resp = "http_429")
    /\ pc' = IF Count(batch_results') >= batch_end - batch_start
             THEN "shutdown" ELSE "collect"
    /\ UNCHANGED <<settings, cancelVars, queryVars, loopVars, submitted,
                   pending, running, requests, processed_count, error_count,
                   features, progress, outVars>>
    /\ UNCHANGED <<worker_log, summary>>
    /\ UNCHANGED geomVars
    /\ UNCHANGED dialogVars

\* A cancellation that leaves the with block by an exception, which the
\* handler of line 798 reports.
CollectCancelledRaises ==
    /\ pc = "collect"
    /\ canceled
    /\ finished > 0
    /\ cancel_seen' = cancel_seen \cup {"collect"}
    /\ pending' = 0
    /\ fatal_reports' = fatal_reports + 1
    /\ report' = "Unexpected error"
    /\ result' = "empty"
    /\ pc' = "done"
    /\ UNCHANGED <<settings, canceled, queryVars, loopVars, submitted, running,
                   finished, requests, countVars, error>>
    /\ UNCHANGED noteVars
    /\ UNCHANGED geomVars
    /\ UNCHANGED dialogVars

\* Lines 574-578: a future is yielded while the job is cancelled; every
\* future is cancelled (only the queued ones can be) and the loop is left
\* without reading the yielded result.
CollectCancelled ==
    /\ pc = "collect"
    /\ canceled
    /\ finished > 0
    /\ cancel_seen' = cancel_seen \cup {"collect"}
    /\ pending' = 0
    /\ pc' = "shutdown"
    /\ UNCHANGED <<settings, canceled, queryVars, loopVars, submitted, running,
                   finished, requests, countVars, outVars>>
    /\ UNCHANGED noteVars
    /\ UNCHANGED geomVars
    /\ UNCHANGED dialogVars

\* End of the with block: shutdown(wait=True) returns; results nobody read
\* go with the executor.
Shutdown ==
    /\ pc = "shutdown"
    /\ Drained(pending, running)
    /\ finished' = 0
    /\ pc' = "process"
    /\ UNCHANGED <<settings, cancelVars, queryVars, loopVars, submitted,
                   pending, running, requests, countVars, outVars>>
    /\ UNCHANGED noteVars
    /\ UNCHANGED geomVars
    /\ UNCHANGED dialogVars

\* A results loop that stops at the failure that passes the threshold.
ProcessFailureStopsBatch ==
    /\ pc = "process"
    /\ ~canceled
    /\ Has(batch_results, FALSE)
    /\ batch_results' = Take(batch_results, FALSE)
    /\ error_count' = error_count + 1
    /\ pc' = IF error_count' > max_errors THEN "report" ELSE "process"
    /\ UNCHANGED <<settings, cancelVars, queryVars, loopVars, poolVars,
                   processed_count, features, progress, outVars>>
    /\ UNCHANGED noteVars
    /\ UNCHANGED geomVars
    /\ UNCHANGED dialogVars

\* Lines 594-763, one iteration for a failed result (759-763).
ProcessFailure ==
    /\ pc = "process"
    /\ ~canceled
    /\ Has(batch_results, FALSE)
    /\ batch_results' = Take(batch_results, FALSE)
    /\ error_count' = error_count + 1
    /\ UNCHANGED <<settings, pc, cancelVars, queryVars, loopVars, poolVars,
                   processed_count, features, progress, outVars>>
    /\ UNCHANGED noteVars
    /\ UNCHANGED geomVars
    /\ UNCHANGED dialogVars

\* Lines 594-757, one iteration for a successful result.
ProcessSuccess ==
    /\ pc = "process"
    /\ ~canceled
    /\ Has(batch_results, TRUE)
    /\ batch_results' = Take(batch_results, TRUE)
    /\ \E rec \in Served(catalog) :
          LET out == ProcessRecord(rec, qgis_geom)
          IN /\ qgis_geom' = out.local
             /\ IF out.added
                THEN /\ features' = features + 1
                     /\ processed_count' = processed_count + 1
                     /\ sink' = sink \cup {[rec |-> rec, geom |-> out.geom]}
                     /\ UNCHANGED error_count
                ELSE /\ error_count' = error_count + 1
                     /\ UNCHANGED <<features, processed_count, sink>>
    /\ UNCHANGED catalog
    /\ UNCHANGED <<settings, pc, cancelVars, queryVars, loopVars, poolVars,
                   progress, outVars>>
    /\ UNCHANGED noteVars
    /\ UNCHANGED dialogVars

\* Lines 595-596: the results loop is left on cancellation.
ProcessCancelled ==
    /\ pc = "process"
    /\ canceled
    /\ Count(batch_results) > 0
    /\ cancel_seen' = cancel_seen \cup {"process"}
    /\ pc' = "report"
    /\ UNCHANGED <<settings, canceled, queryVars, loopVars, poolVars,
                   countVars, outVars>>
    /\ UNCHANGED noteVars
    /\ UNCHANGED geomVars
    /\ UNCHANGED dialogVars

\* batch_num, line 555
batch_num == (batch_start \div batch_size) + 1

\* Lines 765-776: progress after the batch, the pause between batches (line
\* 774 asks isCanceled() when another batch follows), back to the loop head.
ReportProgress ==
    /\ \/ pc = "report"
       \/ pc = "process" /\ Count(batch_results) = 0
    /\ progress' = Append(progress, ProgressValue(batch_end, total_parcels))
    /\ cancel_seen' = IF batch_num < total_batches /\ canceled
                      THEN cancel_seen \cup {"sleep"} ELSE cancel_seen
    /\ pc' = "loop"
    /\ UNCHANGED <<settings, canceled, queryVars, loopVars, poolVars,
                   batch_results, processed_count, error_count, features,
                   outVars>>
    /\ UNCHANGED noteVars
    /\ UNCHANGED geomVars
    /\ UNCHANGED dialogVars

\* The state on entering the batch loop (lines 465-481, 538) with the
\* identifier list parcel_fids = 1..total_found.
DetailInit ==
    /\ \/ total_found \in JobSizes /\ catalog = "plain"
       \/ total_found \in 1 .. MaxRichJob /\ catalog = "rich"
    /\ settings = save_credentials(EmptyStore,
                      [rapidapi_key |-> <<97>>, bearer_token |-> <<90>>,
                       subscription_plan |-> "Manual Entry"])[2]
    /\ response = OkResponse(total_found)
    /\ pc = "loop"
    /\ canceled = FALSE
    /\ cancel_seen = {}
    /\ next_start = 0
    /\ batch_start = 0
    /\ batch_end = 0
    /\ batches = <<>>
    /\ submitted = 0
    /\ pending = 0
    /\ running = 0
    /\ finished = 0
    /\ requests = [i \in 1 .. (SmallJobLimit + 1) |-> 0]
    /\ batch_results = NoResults
    /\ processed_count = 0
    /\ error_count = 0
    /\ features = 0
    /\ progress = <<0>>
    /\ fatal_reports = 0
    /\ report = ""
    /\ error = ""
    /\ result = "none"
    /\ rate_limited = FALSE
    /\ worker_log = 0
    /\ summary = <<>>
    /\ qgis_geom = Unbound
    /\ sink = {}
    /\ last_call = NoCall
    /\ dialog = ClosedDialog

DetailNext ==
    \/ Cancel
    \/ LoopExhausted
    \/ LoopCancelled
    \/ LoopContinue
    \/ LoopOverBudget
    \/ StartBatch
    \/ Submit
    \/ WorkerStart
    \/ WorkerFinish
    \/ Collect
    \/ CollectCancelled
    \/ Shutdown
    \/ ProcessFailure
    \/ ProcessSuccess
    \/ ProcessCancelled
    \/ ReportProgress

DetailSpec == DetailInit /\ [][DetailNext]_vars

\* Every step but the user's: the coordinator runs on, the executor starts
\* the tasks it queued, every request sent comes back.
DetailProgress ==
    \/ LoopExhausted
    \/ LoopCancelled
    \/ LoopContinue
    \/ LoopOverBudget
    \/ StartBatch
    \/ Submit
    \/ WorkerStart
    \/ WorkerFinish
    \/ Collect
    \/ CollectCancelled
    \/ Shutdown
    \/ ProcessFailure
    \/ ProcessSuccess
    \/ ProcessCancelled
    \/ ReportProgress

DetailLive == DetailSpec /\ WF_vars(DetailProgress)

----------------------------------------------------------------------------
(* Claims about the batch loop, checked under DetailSpec *)

\* ceil(n / b): the least k with k * b >= n
CeilDiv(n, b) == CHOOSE k \in 0 .. n : k * b >= n /\ (k - 1) * b < n

\* The job ended with the loop exhausted: no cancellation was seen and the
\* error threshold did not stop it.
RanToEnd == pc = "done" /\ cancel_seen = {} /\ fatal_reports = 0

\* C1: a job of N identifiers that is neither cancelled nor stopped by the
\* error threshold has run exactly ceil(N / batch_size) batches, batch k
\* being the identifiers (k-1)*batch_size+1 .. min(k*batch_size, N); no
\* request is sent for an identifier beyond the current batch, and whenever
\* the coordinator is at the head of the loop, about to start a batch, no
\* request of an earlier batch is queued or in flight.
C1_BatchesInOrder ==
    /\ RanToEnd =>
          /\ Len(batches) = CeilDiv(total_found, batch_size)
          /\ \A k \in 1 .. Len(batches) :
                batches[k] = <<(k - 1) * batch_size,
                               IF k * batch_size <= total_found
                               THEN k * batch_size ELSE total_found>>
    /\ \A i \in DOMAIN requests : requests[i] > 0 => i <= batch_end
    /\ pc \in {"loop", "threshold"} => pending = 0 /\ running = 0

\* C1 witness: a job of three batches, the last one shorter, ran to its end.
C1_Witness ==
    /\ RanToEnd
    /\ Len(batches) = 3
    /\ batches[3][2] - batches[3][1] < batch_size
    /\ requests[total_found] = 1

\* Identifiers of the batches started so far
Attempted == IF batches = <<>> THEN 0 ELSE batches[Len(batches)][2]

\* C2: from the moment error_count exceeds max_errors no batch is started
\* and no detail request is sent; features and counted outcomes never
\* outnumber the identifiers of the batches started.
C2_NoBatchAfterBudget ==
    /\ [][error_count > max_errors =>
             batches' = batches /\ requests' = requests]_vars
    /\ [](/\ processed_count + error_count <= Attempted
          /\ features <= Attempted)

\* C2 witness: the threshold stopped a job that had identifiers left.
C2_Witness ==
    /\ pc = "done"
    /\ error_count > max_errors
    /\ fatal_reports = 1
    /\ Attempted < total_found
    /\ processed_count > 0
    /\ \A i \in DOMAIN requests : i > Attempted => requests[i] = 0

\* C3: a job that ends, uncancelled, with error_count above max_errors has
\* made a fatal report, whichever batch took it above.
C3_OverBudgetReported ==
    (pc = "done" /\ ~canceled /\ error_count > max_errors) => fatal_reports >= 1

\* C4: once isCanceled() was seen true between two batches (line 541 or
\* line 774) nothing is submitted and no request is sent; the outcomes
\* counted never outnumber the identifiers submitted.
C4_NoRequestAfterCancel ==
    /\ [][cancel_seen \cap {"loop", "sleep"} # {} =>
             requests' = requests /\ submitted' = submitted /\ batches' = batches]_vars
    /\ [](processed_count + error_count <= batch_start + submitted)

\* C4 witness: cancellation seen at the loop head after a batch, with
\* identifiers left that were never requested.
C4_Witness ==
    /\ pc = "done"
    /\ "loop" \in cancel_seen
    /\ cancel_seen \cap {"collect", "process"} = {}
    /\ processed_count + error_count > 0
    /\ Attempted < total_found
    /\ requests[total_found] = 0

\* C5: a job in which cancellation was seen ends with the output layer id,
\* without a fatal report or an exception, and no feature is added after
\* cancellation was seen.
C5_CancelIsPartialResult ==
    /\ []((cancel_seen # {} /\ pc = "done") =>
             (result = "dest_id" /\ fatal_reports = 0 /\ error = ""))
    /\ [][cancel_seen # {} =>
             features' = features /\ fatal_reports' = fatal_reports]_vars

\* C5 witness: cancelled while collecting a batch, some features kept.
C5_Witness ==
    /\ pc = "done"
    /\ "collect" \in cancel_seen
    /\ result = "dest_id"
    /\ features > 0
    /\ features < total_found

\* C6: no identifier gets more than one detail request, and a failed result
\* taken from batch_results adds exactly one to error_count, adds no
\* feature and sends nothing.
C6_OneRequestPerIdentifier ==
    /\ [](\A i \in DOMAIN requests : requests[i] <= 1)
    /\ [][(pc = "process" /\ batch_results'.failed < batch_results.failed) =>
             /\ error_count' = error_count + 1
             /\ features' = features
             /\ requests' = requests]_vars

\* C6 witness: every request of a job failed and was counted once.
C6_Witness ==
    /\ pc = "done"
    /\ ~canceled
    /\ total_found > 2
    /\ error_count = total_found
    /\ processed_count = 0
    /\ \A i \in 1 .. total_found : requests[i] = 1

\* C7: at most min(batch_size, 15) requests are in flight, only while the
\* executor of the current batch is open, and the futures of the executor
\* are futures of the current batch.
C7_InFlightBounded ==
    /\ running <= (IF batch_size < 15 THEN batch_size ELSE 15)
    /\ running > 0 => pc \in {"submit", "collect", "shutdown"}
    /\ pending + running + finished + Count(batch_results) <= submitted
    /\ submitted <= batch_end - batch_start

\* C7 witness: fifteen requests in flight while futures of the batch wait.
C7_Witness ==
    /\ running = 15
    /\ pending > 0
    /\ batch_size > 15

\* C8: while the job is not cancelled, every batch that was started has all
\* its identifiers counted, as processed or as error, when the coordinator
\* is back at the head of the loop or done.
C8_FailureNeverAbortsBatch ==
    (~canceled /\ pc \in {"loop", "threshold", "done"}) =>
        /\ processed_count + error_count = Attempted
        /\ batch_end = Attempted

\* C8 witness: the first batch went on counting after error_count had
\* passed max_errors, and the threshold then stopped the job.
C8_Witness ==
    /\ pc = "done"
    /\ ~canceled
    /\ Len(batches) = 1
    /\ total_found > batch_size
    /\ error_count > max_errors + 1
    /\ processed_count > 0
    /\ processed_count + error_count = batch_size

\* The region query came back with status 200 and {success: true, data: [..]}
WellFormed(resp) ==
    /\ resp.transport = "ok"
    /\ resp.status = 200
    /\ resp.json = "object"
    /\ resp.success
    /\ resp.has_data

\* C9: a run whose region query succeeded with zero identifiers ends with
\* the output layer id, without a fatal report or an exception, without a
\* detail request and without a feature.
C9_EmptyRegionIsEmptyLayer ==
    (pc = "done" /\ WellFormed(response) /\ response.count = 0) =>
        /\ result = "dest_id"
        /\ fatal_reports = 0
        /\ error = ""
        /\ features = 0
        /\ \A i \in DOMAIN requests : requests[i] = 0

\* C10: after a region query answered with status 200 and a well-formed
\* payload of one identifier or more, the run has the identifiers
\* (total_found is their number), has left the query for the batch loop
\* and has made no fatal report.
C10_WellFormedProceeds ==
    (WellFormed(response) /\ response.count > 0) =>
        /\ total_found = response.count
        /\ pc # "done"
        /\ fatal_reports = 0

\* The failure classes of the region query, and success.
Class(resp) ==
    CASE resp.transport = "timeout" -> "timeout"
      [] resp.transport = "connection_error" -> "connection"
      [] resp.transport = "request_exception" -> "transport"
      [] resp.transport = "none" -> "none"
      [] resp.transport = "ok" /\ resp.status \in {401, 403} -> "authentication"
      [] resp.transport = "ok" /\ resp.status = 429 -> "rate_limit"
      [] resp.transport = "ok" /\ resp.status \notin {200, 401, 403, 429} -> "status"
      [] resp.transport = "ok" /\ resp.status = 200 /\ resp.json = "invalid" -> "json"
      [] resp.transport = "ok" /\ resp.status = 200 /\ resp.json = "object"
            /\ ~(resp.success /\ resp.has_data) -> "payload"
      [] OTHER -> "success"

\* The region query of this run has been answered and was not a success.
RegionFailed ==
    pc = "done" /\ response # NoResponse /\ Class(response) # "success"

\* C11: a run whose region query failed has made a fatal report that no
\* response of another class (a successful one included) would have got,
\* and has no identifier list.
C11_FailureClassesDistinct ==
    RegionFailed =>
        /\ fatal_reports = 1
        /\ total_found = 0
        /\ \A other \in RegionResponses :
              Class(other) # Class(response) => RegionOutcome(other).message # report

\* C12: a run whose region query failed has made exactly one fatal report,
\* has sent no detail request, added no feature and counted no error.
C12_RegionFailureIsOneFatalReport ==
    RegionFailed =>
        /\ fatal_reports = 1
        /\ result = "empty"
        /\ features = 0
        /\ error_count = 0 /\ processed_count = 0
        /\ \A i \in DOMAIN requests : requests[i] = 0

\* C12 witness: the service rejected the credentials (401) and the run
\* ended with one fatal report.
C12_Witness ==
    /\ RegionFailed
    /\ response.status = 401
    /\ fatal_reports = 1
    /\ report # ""

\* C13: a detail request answered 429 stops the job with a fatal report: a
\* job that has collected such an answer starts no further batch and, when
\* it ends uncancelled, has made a fatal report.
C13_RateLimitStopsJob ==
    (rate_limited /\ ~canceled) =>
        /\ pc = "done" => fatal_reports >= 1
        /\ pc \notin {"threshold", "submit"}

\* A step of a worker thread: a request is sent or a request resolves.
WorkerStep == running' # running

\* C18: processed_count and error_count change only in the coordinator's
\* results loop, when no future of the batch is queued or running; a step
\* of a worker changes nothing but the executor's record of its own task
\* and the request it sent.
C18_CountersOwnedByCoordinator ==
    /\ [][(processed_count' # processed_count \/ error_count' # error_count) =>
             (pc = "process" /\ pending = 0 /\ running = 0)]_vars
    /\ [][WorkerStep =>
             UNCHANGED <<settings, pc, cancelVars, queryVars, loopVars,
                         countVars, outVars, worker_log, summary>>]_vars

\* The number of failures a summary tells: the number of its line about
\* errors, zero when it has none.
ReportedFailed(lines) ==
    IF \E i \in DOMAIN lines : lines[i][1] = "errors"
    THEN lines[CHOOSE i \in DOMAIN lines : lines[i][1] = "errors"][2]
    ELSE 0

\* C19: a job that had identifiers ends with a summary that tells how many
\* were found, how many became features and how many failed.
C19_SummaryAlways ==
    pc = "done" =>
        /\ summary # <<>>
        /\ summary[1] = <<"completed", processed_count, total_found>>
        /\ ReportedFailed(summary) = error_count

\* C19 witness: a job stopped by the error threshold, with features and
\* failures, has its summary.
C19_Witness ==
    /\ pc = "done"
    /\ fatal_reports = 1
    /\ processed_count > 0
    /\ Len(summary) = 2
    /\ summary[2] = <<"errors", error_count>>

\* C14: a feature made from a Polygon or MultiPolygon dict carries the
\* geometry built from the rings of four pairs or more of its own record,
\* and there is such a ring; a record without one adds no feature.
C14_RingsOfOwnRecord ==
    \A f \in sink :
        f.rec.geom.kind = "dict" =>
            /\ f.geom.via = "geojson"
            /\ f.geom.rings = KeepRings(f.rec.geom.rings)
            /\ f.geom.polygons = KeepPolygons(f.rec.geom.polygons)
            /\ f.geom.rings # <<>> \/ f.geom.polygons # <<>>

\* C15: every feature in the sink has a geometry that is not empty and
\* passes the validity check, whatever the encoding of its record.
C15_OnlyValidGeometries ==
    \A f \in sink : f.geom.shape = "valid"

\* A string of more than 20 characters, all of them hexadecimal digits
LongHex(text) ==
    /\ Len(text) > 20
    /\ \A i \in 1 .. Len(text) :
          text[i] \in (48 .. 57) \cup (65 .. 70) \cup (97 .. 102)

\* C16: a string geom goes to the binary decoder exactly when it has more
\* than 20 characters, all hexadecimal digits, and to the text parser
\* otherwise; a feature comes only from a Polygon or MultiPolygon dict or
\* from a string.
C16_GeometryDispatch ==
    /\ qgis_geom.via \in {"wkb", "wkt"} =>
          (qgis_geom.via = "wkb" <=> LongHex(qgis_geom.text))
    /\ \A f \in sink :
          /\ f.rec.geom.kind \in {"dict", "str"}
          /\ f.rec.geom.kind = "dict" =>
                f.rec.geom.type \in {"Polygon", "MultiPolygon"}
          /\ f.rec.geom.kind = "str" =>
                /\ f.geom.text = f.rec.geom.text
                /\ f.geom.via = IF LongHex(f.rec.geom.text) THEN "wkb" ELSE "wkt"

\* C16 witness: one feature decoded from 22 hexadecimal digits, one parsed
\* as text from 20, and errors counted for nothing.
C16_Witness ==
    /\ pc = "done"
    /\ error_count = 0
    /\ \E f \in sink : f.geom.via = "wkb" /\ Len(f.rec.geom.text) = 22
    /\ \E f \in sink : f.geom.via = "wkt" /\ Len(f.rec.geom.text) = 20

\* The coordinator is between two batches or past the loop.
BetweenBatches == pc \in {"loop", "threshold", "done"}

\* C17 as stated: the value passed to the progress sink after a batch is
\* the share of processed_count in the total.
C17_ProgressIsProcessedCount ==
    (BetweenBatches /\ Len(progress) > 1) =>
        progress[Len(progress)] = (processed_count * 100) \div total_found

\* C17 as amended: one value is passed before the loop (0) and one after
\* each batch started, and the value after batch k is the whole percentage
\* that the end of batch k makes of the total, whatever became of the
\* identifiers of the batch.
C17_ProgressIsBatchEnd ==
    /\ progress[1] = 0
    /\ BetweenBatches => Len(progress) = Len(batches) + 1
    /\ Len(progress) \in {Len(batches), Len(batches) + 1}
    /\ \A k \in 1 .. (Len(progress) - 1) :
          progress[k + 1] = (batches[k][2] * 100) \div total_found

\* C17 witness: three batches of a job of 51 with failures among them.
C17_Witness ==
    /\ pc = "done"
    /\ total_found = 51
    /\ error_count > 0
    /\ progress = <<0, 39, 78, 100>>

\* C20: download_parcel_info gives a failure for every response but a
\* well-formed success; collecting a result raises nothing and ends no
\* job; a failed result taken by the results loop adds one to error_count
\* and no feature.
C20_FailedRequestIsCountedOnce ==
    /\ [](\A r \in DetailResponses : download_parcel_info(r).success <=> r = "ok")
    /\ [][Count(batch_results') = Count(batch_results) + 1 =>
             /\ pc = "collect" /\ pc' \in {"collect", "shutdown"}
             /\ UNCHANGED <<outVars, processed_count, error_count, features, sink>>]_vars
    /\ [][(pc = "process" /\ batch_results'.failed = batch_results.failed - 1) =>
             /\ error_count' = error_count + 1
             /\ pc' = "process"
             /\ UNCHANGED <<outVars, processed_count, features, sink>>]_vars

\* C20 witness: a job of two whose one request was answered 429 ended with
\* one failure, one feature, no fatal report and no exception.
C20_Witness ==
    /\ pc = "done"
    /\ total_found = 2
    /\ rate_limited
    /\ error_count = 1
    /\ features = 1
    /\ fatal_reports = 0
    /\ error = ""


\* How a job can have ended.
AllConsumed == processed_count + error_count = total_found
BudgetExceeded == fatal_reports = 1 /\ report = "Too many errors encountered"
CancelObserved == cancel_seen # {}

\* C21: when every request sent comes back, every job ends, and it ends
\* in exactly one of three ways: every identifier counted, the error
\* threshold report, or a cancellation seen by the coordinator.
C21_Terminates ==
    /\ <>(pc = "done")
    /\ [](pc = "done"
            => \/ AllConsumed /\ ~BudgetExceeded /\ ~CancelObserved
               \/ ~AllConsumed /\ BudgetExceeded /\ ~CancelObserved
               \/ ~AllConsumed /\ ~BudgetExceeded /\ CancelObserved)

\* C21 witness: a job of several batches that ended on a cancellation seen
\* in a batch whose failures had passed the threshold.
C21_Witness ==
    /\ pc = "done"
    /\ ~AllConsumed
    /\ CancelObserved
    /\ canceled
    /\ error_count > max_errors
    /\ Len(batches) > 1


\* C22: every step that takes a collected outcome takes exactly one and
\* either adds one feature and one to processed_count or adds no feature
\* and one to error_count; the features in the sink are processed_count;
\* a job that ends neither cancelled nor stopped by the error threshold has
\* counted every identifier.
C22_Accounting ==
    /\ [](features = processed_count)
    /\ []((pc = "done" /\ ~canceled /\ fatal_reports = 0)
            => processed_count + error_count = total_found)
    /\ [][(\/ processed_count' # processed_count
            \/ error_count' # error_count
            \/ features' # features
            \/ (pc = "process" /\ batch_results' # batch_results))
           => /\ Count(batch_results') = Count(batch_results) - 1
              /\ \/ /\ features' = features + 1
                    /\ processed_count' = processed_count + 1
                    /\ error_count' = error_count
                 \/ /\ features' = features
                    /\ processed_count' = processed_count
                    /\ error_count' = error_count + 1]_vars

\* C22 witness: a job of several batches ended, not cancelled and within
\* the threshold, with features and failures both counted.
C22_Witness ==
    /\ pc = "done"
    /\ ~canceled
    /\ fatal_reports = 0
    /\ Len(batches) > 1
    /\ features > 0
    /\ error_count > 0
    /\ processed_count + error_count = total_found

\* C23: the progress values never decrease, lie in 0..100, and 100 is
\* reported only when every identifier has had its outcome counted, also
\* when the job is cancelled during its last batch.
C23_ProgressHonest ==
    /\ \A k \in 1 .. Len(progress) : progress[k] \in 0 .. 100
    /\ \A k \in 1 .. (Len(progress) - 1) : progress[k] <= progress[k + 1]
    /\ (\E k \in 1 .. Len(progress) : progress[k] = 100)
          => processed_count + error_count = total_found

\* C24: when cancellation is seen while a batch is collected, the queued
\* requests are cancelled and none starts afterwards; no detail request is
\* queued or in flight while the results are processed, between batches,
\* or when processAlgorithm has returned.
C24_NoRequestOutlivesBatch ==
    /\ [](pc \in {"process", "report", "loop", "threshold", "done"}
            => pending = 0 /\ running = 0)
    /\ [][("collect" \in cancel_seen' /\ "collect" \notin cancel_seen)
            => pending' = 0]_vars
    /\ [][("collect" \in cancel_seen) => requests' = requests]_vars

\* C24 witness: a job ended after a cancellation seen while collecting;
\* the first identifier of the batch was requested, the last never was.
C24_Witness ==
    /\ pc = "done"
    /\ "collect" \in cancel_seen
    /\ batch_end - batch_start > 1
    /\ requests[batch_start + 1] = 1
    /\ requests[batch_end] = 0
    /\ submitted = batch_end - batch_start


\* The store holds a key and a token that decode to non-empty texts.
StoreUsable(store) ==
    /\ {"rapidapi_key_enc", "bearer_token_enc"} \subseteq DOMAIN store
    /\ _decrypt(store["rapidapi_key_enc"]) # <<>>
    /\ _decrypt(store["bearer_token_enc"]) # <<>>

\* C25: the algorithm issues no request while the store holds no usable
\* credentials: the parameter check passes, processAlgorithm gets past its
\* first lines, and the region query is sent, only over a store whose key
\* and token are present and decodable.
C25_NoRequestWithoutCredentials ==
    [][(\/ pc' # pc /\ pc' \in {"checked", "query"}
        \/ response' # response /\ response' # NoResponse
        \/ requests' # requests)
       => StoreUsable(settings)]_vars

C25_Witness ==
    /\ settings \in ForeignStores
    /\ pc = "done"
    /\ error = "No API credentials found"
    /\ response = NoResponse

\* C26: after save_credentials(c) returned True, and it does for every c
\* with a non-empty key and token, get_saved_credentials returns c's key
\* and token with is_working True, until the next save or clear.
C26_RoundTrip ==
    last_call.op = "save"
        => LET c == last_call.credentials
               saved_creds == get_saved_credentials(settings)
           IN /\ (c.rapidapi_key # <<>> /\ c.bearer_token # <<>>
                     => last_call.returned)
              /\ (last_call.returned
                     => /\ saved_creds.found
                        /\ saved_creds.rapidapi_key = c.rapidapi_key
                        /\ saved_creds.bearer_token = c.bearer_token
                        /\ saved_creds.is_working = TRUE)

C26_Witness ==
    /\ last_call.op = "save"
    /\ last_call.returned
    /\ Len(last_call.credentials.rapidapi_key) = MaxTextLen
    /\ last_call.credentials.bearer_token # last_call.credentials.rapidapi_key
    /\ pc = "checked"

\* C27: save_credentials called with an empty key or token returns False
\* and changes no stored setting, so what get_saved_credentials returned
\* before it still returns.
C27_EmptySaveChangesNothing ==
    [][(/\ last_call'.op = "save"
        /\ \/ last_call'.credentials.rapidapi_key = <<>>
           \/ last_call'.credentials.bearer_token = <<>>)
       => /\ ~last_call'.returned
          /\ settings' = settings
          /\ get_saved_credentials(settings')
               = get_saved_credentials(settings)]_vars

C27_Witness ==
    /\ last_call.op = "save"
    /\ ~last_call.returned
    /\ last_call.credentials.rapidapi_key # <<>>
    /\ get_saved_credentials(settings).found

\* C28: after clear_credentials returned True get_saved_credentials
\* returns None, and goes on doing so, the parameter check failing, until a
\* save_credentials returns True.
C28_ClearedUntilSaved ==
    /\ [](last_call.op = "clear"
            => last_call.returned /\ ~get_saved_credentials(settings).found)
    /\ [][~get_saved_credentials(settings).found
            => /\ (get_saved_credentials(settings').found
                     => last_call'.op = "save" /\ last_call'.returned
                        /\ last_call' # last_call)
               /\ (pc' # pc => pc' # "checked")]_vars

C28_Witness ==
    /\ last_call.op = "clear"
    /\ last_call.returned
    /\ pc = "done"
    /\ error = "No API credentials found"


\* C29: in the dialog, Save & Use is enabled only while the key and token
\* in the input fields are the pair that last passed validate_credentials,
\* so that what the dialog saves has passed it.
C29_SaveOnlyWhatPassed ==
    /\ [](dialog.open /\ dialog.save_btn
            => <<strip(dialog.api_key_input), strip(dialog.bearer_input)>>
               = dialog.passed)
    /\ [][last_call' # last_call /\ last_call'.op = "save"
            /\ last_call'.returned
            => <<last_call'.credentials.rapidapi_key,
                 last_call'.credentials.bearer_token>> = dialog.passed]_vars

====
